---- MODULE Spec2Model ----
(***************************************************************************)
(* Model of time-changer (src/main.go): a calendar view with previous/next *)
(* month navigation and day buttons, an hour/minute/second time picker, a  *)
(* "Set to Current Time" button, the selected-date label and the preview   *)
(* label.                                                                  *)
(*                                                                         *)
(* A time.Time value is a record of its civil fields in time.Local         *)
(* (nanoseconds are never displayed and are left out; the zone is taken to *)
(* have no daylight-saving transition inside the modelled instants).       *)
(* Texts are sequences of one-character strings, so that formatting and    *)
(* parsing are real conversions.                                           *)
(***************************************************************************)
EXTENDS Integers, Sequences, FiniteSets

VARIABLES
    now,                    \* the wall clock read by time.Now()
    currentMonth,           \* CreateCalendarView: currentMonth
    monthYearLabel,         \* CreateCalendarView: monthYearLabel text
    calendarGrid,           \* CreateCalendarView: calendarGrid.Objects
    today,                  \* updateCalendar: today, as last read
    currentTime,            \* main: currentTime
    selectedDateValue,      \* main: selectedDateValue text
    selectedDateTimeLabel,  \* main: selectedDateTimeLabel text (the preview)
    pickerTime,             \* CreateTimePicker: its currentTime parameter
    hours,                  \* CreateTimePicker: hours
    minutes,                \* CreateTimePicker: minutes
    seconds,                \* CreateTimePicker: seconds
    event                   \* the UI event the toolkit dispatched last

vars ==
    <<now, currentMonth, monthYearLabel, calendarGrid, today, currentTime,
      selectedDateValue, selectedDateTimeLabel, pickerTime, hours, minutes,
      seconds, event>>

(***************************************************************************)
(* Bounds of the model.                                                    *)
(***************************************************************************)
\* Navigation is explored up to this many months away from the start month.
MonthSpan ==
    2

(***************************************************************************)
(* Texts.                                                                  *)
(***************************************************************************)
DigitChars ==
    <<"0", "1", "2", "3", "4", "5", "6", "7", "8", "9">>

IsDigit(c) ==
    \E i \in 1..10 : DigitChars[i] = c

DigitVal(c) ==
    (CHOOSE i \in 1..10 : DigitChars[i] = c) - 1

RECURSIVE Itoa(_)
\* fmt "%d" of a non-negative integer.
Itoa(n) ==
    IF n < 10 THEN <<DigitChars[n + 1]>>
    ELSE Itoa(n \div 10) \o <<DigitChars[(n % 10) + 1]>>

RECURSIVE Zeros(_)
Zeros(k) ==
    IF k <= 0 THEN <<>> ELSE <<"0">> \o Zeros(k - 1)

\* fmt "%0<w>d" of a non-negative integer: at least w digits, zero-padded.
PadInt(n, w) ==
    Zeros(w - Len(Itoa(n))) \o Itoa(n)

RECURSIVE DigitsValue(_)
\* The decimal value of a sequence of digit characters.
DigitsValue(s) ==
    IF s = <<>> THEN 0
    ELSE 10 * DigitsValue(SubSeq(s, 1, Len(s) - 1)) + DigitVal(s[Len(s)])

AllDigits(s) ==
    \A i \in 1..Len(s) : IsDigit(s[i])

\* generateRange(min, max): the "%02d" texts of min..max.
generateRange(min, max) ==
    [i \in 1..(max - min + 1) |-> PadInt(min + (i - 1), 2)]

RECURSIVE SkipSpaces(_)
SkipSpaces(s) ==
    IF s # <<>> /\ s[1] = " " THEN SkipSpaces(Tail(s)) ELSE s

RECURSIVE DigitPrefix(_)
DigitPrefix(s) ==
    IF s # <<>> /\ IsDigit(s[1]) THEN <<s[1]>> \o DigitPrefix(Tail(s)) ELSE <<>>

\* fmt.Sscanf(value, "%d", &v) on a variable v declared just before (zero):
\* leading spaces are skipped, an optional sign and the longest run of
\* decimal digits is read; with no digit the scan fails and v keeps 0.
\* The error Sscanf returns is discarded by every caller.
Sscanf(value) ==
    LET s    == SkipSpaces(value)
        neg  == s # <<>> /\ s[1] = "-"
        body == IF s # <<>> /\ s[1] \in {"-", "+"} THEN Tail(s) ELSE s
        ds   == DigitPrefix(body)
    IN  IF ds = <<>> THEN 0
        ELSE IF neg THEN 0 - DigitsValue(ds) ELSE DigitsValue(ds)

(***************************************************************************)
(* Calendar arithmetic of package time, as main.go uses it.                *)
(***************************************************************************)
MonthNames ==
    <<"January", "February", "March", "April", "May", "June", "July",
      "August", "September", "October", "November", "December">>

WeekdayNames ==
    <<"Sun", "Mon", "Tue", "Wed", "Thu", "Fri", "Sat">>

\* The leap-year test without the 400-year exception.
isLeap_No400(year) ==
    year % 4 = 0 /\ year % 100 # 0

isLeap(year) ==
    year % 4 = 0 /\ (year % 100 # 0 \/ year % 400 = 0)

daysBefore ==
    <<0, 31, 59, 90, 120, 151, 181, 212, 243, 273, 304, 334, 365>>

\* Days in the month, from the daysBefore table and the leap test.
daysIn(month, year) ==
    IF month = 2 /\ isLeap(year) THEN 29
    ELSE daysBefore[month + 1] - daysBefore[month]

\* Days from 0001-01-01 to year-month-day (month in 1..12, day unnormalised).
daysSinceEpoch(year, month, day) ==
    LET y == year - 1
    IN  365 * y + (y \div 4) - (y \div 100) + (y \div 400)
          + daysBefore[month]
          + (IF isLeap(year) /\ month >= 3 THEN 1 ELSE 0)
          + (day - 1)

RECURSIVE normDay(_, _, _)
\* The civil date of day `day` (possibly < 1 or past the month's end) of
\* year-month: what converting the day count back to a date yields.
normDay(year, month, day) ==
    IF day < 1 THEN
        IF month = 1 THEN normDay(year - 1, 12, day + daysIn(12, year - 1))
        ELSE normDay(year, month - 1, day + daysIn(month - 1, year))
    ELSE IF day > daysIn(month, year) THEN
        IF month = 12 THEN normDay(year + 1, 1, day - daysIn(month, year))
        ELSE normDay(year, month + 1, day - daysIn(month, year))
    ELSE [year |-> year, month |-> month, day |-> day]

\* time.Date with the month overflow carried into the wrong year: the year
\* is left alone when the month wraps.
Date_NoYearCarry(year, month, day, hour, min, sec) ==
    LET d == normDay(year, ((month - 1) % 12) + 1, day)
    IN  [year |-> d.year, month |-> d.month, day |-> d.day,
         hour |-> hour % 24, minute |-> min % 60, second |-> sec % 60]

\* time.Date with an out-of-range month clamped into 1..12 instead of carried.
Date_ClampMonth(year, month, day, hour, min, sec) ==
    LET m == IF month < 1 THEN 1 ELSE IF month > 12 THEN 12 ELSE month
        d == normDay(year, m, day)
    IN  [year |-> d.year, month |-> d.month, day |-> d.day,
         hour |-> hour % 24, minute |-> min % 60, second |-> sec % 60]

\* time.Date(year, month, day, hour, min, sec, 0, time.Local): values outside
\* their ranges are normalised, each overflow carried into the next field.
Date(year, month, day, hour, min, sec) ==
    LET m0  == month - 1
        y1  == year + (m0 \div 12)
        m1  == (m0 % 12) + 1
        mi1 == min + (sec \div 60)
        h1  == hour + (mi1 \div 60)
        d1  == day + (h1 \div 24)
        d   == normDay(y1, m1, d1)
    IN  [year |-> d.year, month |-> d.month, day |-> d.day,
         hour |-> h1 % 24, minute |-> mi1 % 60, second |-> sec % 60]

\* t.AddDate(years, months, days).
AddDate(t, years, months, days) ==
    Date(t.year + years, t.month + months, t.day + days,
         t.hour, t.minute, t.second)

\* t.Weekday(): 0 = Sunday .. 6 = Saturday; 0001-01-01 is a Monday.
Weekday(t) ==
    (daysSinceEpoch(t.year, t.month, t.day) + 1) % 7

\* The zero time.Time, which time.Parse returns with an error.
ZeroTime ==
    [year |-> 1, month |-> 1, day |-> 1, hour |-> 0, minute |-> 0, second |-> 0]

\* t.Format("2006-01-02").
FormatDate(t) ==
    PadInt(t.year, 4) \o <<"-">> \o PadInt(t.month, 2) \o <<"-">> \o PadInt(t.day, 2)

\* t.Format("January 2006").
FormatMonthYear(t) ==
    <<MonthNames[t.month], " ">> \o PadInt(t.year, 4)

\* date, _ := time.Parse("2006-01-02", text): four year digits, two month
\* digits, two day digits, the month and the day in range; anything else is
\* an error, which is discarded, and date is the zero time.
ParseDate(text) ==
    IF /\ Len(text) = 10
       /\ text[5] = "-"
       /\ text[8] = "-"
       /\ AllDigits(SubSeq(text, 1, 4))
       /\ AllDigits(SubSeq(text, 6, 7))
       /\ AllDigits(SubSeq(text, 9, 10))
       /\ DigitsValue(SubSeq(text, 6, 7)) \in 1..12
       /\ DigitsValue(SubSeq(text, 9, 10)) \in
              1..daysIn(DigitsValue(SubSeq(text, 6, 7)), DigitsValue(SubSeq(text, 1, 4)))
    THEN [year |-> DigitsValue(SubSeq(text, 1, 4)),
          month |-> DigitsValue(SubSeq(text, 6, 7)),
          day |-> DigitsValue(SubSeq(text, 9, 10)),
          hour |-> 0, minute |-> 0, second |-> 0]
    ELSE ZeroTime

\* fmt.Sprintf("%04d-%02d-%02d %02d:%02d:%02d", ...).
SprintfDateTime(year, month, day, hour, min, sec) ==
    PadInt(year, 4) \o <<"-">> \o PadInt(month, 2) \o <<"-">> \o PadInt(day, 2)
      \o <<" ">> \o PadInt(hour, 2) \o <<":">> \o PadInt(min, 2)
      \o <<":">> \o PadInt(sec, 2)

(***************************************************************************)
(* The environment: the wall clock and the inputs the toolkit delivers.    *)
(***************************************************************************)
\* The instants the wall clock is observed at.
Instants ==
    { [year |-> 2000, month |-> 1, day |-> 31, hour |-> 23, minute |-> 5, second |-> 59],
      [year |-> 2000, month |-> 12, day |-> 31, hour |-> 0, minute |-> 0, second |-> 30] }

\* Whether instant a is later than instant b.
Later(a, b) ==
    LET da == daysSinceEpoch(a.year, a.month, a.day)
        db == daysSinceEpoch(b.year, b.month, b.day)
        sa == (a.hour * 60 + a.minute) * 60 + a.second
        sb == (b.hour * 60 + b.minute) * 60 + b.second
    IN  da > db \/ (da = db /\ sa > sb)

\* The options of the three selects.
HourOptions ==
    generateRange(0, 23)

MinuteOptions ==
    generateRange(0, 59)

SecondOptions ==
    generateRange(0, 59)

\* The options the user is taken to choose among.
HourInputs ==
    {HourOptions[i] : i \in {8}}

MinuteInputs ==
    {MinuteOptions[i] : i \in {31}}

SecondInputs ==
    {SecondOptions[i] : i \in {46}}

\* The day buttons the user is taken to tap.
TapDays ==
    {1, 31}

\* Texts that are no option of a select: one that holds no number, and the
\* empty text.
RawInputs ==
    {<<"x", "x">>, <<>>}

NoEventValue ==
    <<>>

Event(kind, day, value) ==
    [kind |-> kind, day |-> day, value |-> value]

\* Months since year 0 of the month a time lies in.
MonthIndex(t) ==
    t.year * 12 + (t.month - 1)

\* Months from the start month to the month navigation stands at.
MonthsAhead ==
    MonthIndex(currentMonth) - MonthIndex(pickerTime)

(***************************************************************************)
(* CreateCalendarView: updateCalendar.                                     *)
(***************************************************************************)
NoTime ==
    [year |-> 0, month |-> 0, day |-> 0, hour |-> 0, minute |-> 0, second |-> 0]

Cell(kind, text, high, dayTime) ==
    [kind |-> kind, text |-> text, high |-> high, dayTime |-> dayTime]

firstOfMonth(cm) ==
    Date(cm.year, cm.month, 1, 0, 0, 0)

lastOfMonth(cm) ==
    AddDate(firstOfMonth(cm), 0, 1, -1)

firstDayWeekday(cm) ==
    Weekday(firstOfMonth(cm))

daysInMonth(cm) ==
    lastOfMonth(cm).day

\* Every button carries the date of the loop's last day.
dayTime_LastDay(cm, day) ==
    Date(cm.year, cm.month, daysInMonth(cm), 0, 0, 0)

dayTime(cm, day) ==
    Date(cm.year, cm.month, day, 0, 0, 0)

\* The comparison with the month test left out.
isToday_NoMonth(dt, td) ==
    dt.year = td.year /\ dt.day = td.day

isToday(dt, td) ==
    dt.year = td.year /\ dt.month = td.month /\ dt.day = td.day

\* calendarGrid.Objects after updateCalendar, for currentMonth cm and today td.
GridObjects(cm, td) ==
    [i \in 1..7 |-> Cell("label", <<WeekdayNames[i]>>, FALSE, NoTime)]
      \o [i \in 1..firstDayWeekday(cm) |-> Cell("label", <<>>, FALSE, NoTime)]
      \o [day \in 1..daysInMonth(cm) |->
            Cell("button", Itoa(day), isToday(dayTime(cm, day), td), dayTime(cm, day))]

\* updateCalendar(), run with currentMonth already set to cm.
updateCalendar(cm) ==
    /\ monthYearLabel' = FormatMonthYear(cm)
    /\ today' = now
    /\ calendarGrid' = GridObjects(cm, now)

(***************************************************************************)
(* main: updatePreview and the three callbacks.                            *)
(***************************************************************************)
\* The preview text with the date taken from currentTime, not from the label.
PreviewText_FromCurrentTime(dateText, ct) ==
    SprintfDateTime(ct.year, ct.month, ct.day, ct.hour, ct.minute, ct.second)

\* updatePreview(): the text set, for the label text and currentTime given.
PreviewText(dateText, ct) ==
    LET date == ParseDate(dateText)
    IN  SprintfDateTime(date.year, date.month, date.day,
                        ct.hour, ct.minute, ct.second)

\* The calendar's onDateSelected callback.
onDateSelected(selectedDate) ==
    /\ selectedDateValue' = FormatDate(selectedDate)
    /\ currentTime' = selectedDate
    /\ selectedDateTimeLabel' = PreviewText(FormatDate(selectedDate), selectedDate)

\* CreateTimePicker's updateTime with the closure values h, m, s, and the time
\* picker's onTimeSelected callback it calls.
updateTime(h, m, s) ==
    LET selectedTime == Date(pickerTime.year, pickerTime.month, pickerTime.day, h, m, s)
    IN  /\ currentTime' = selectedTime
        /\ selectedDateTimeLabel' = PreviewText(selectedDateValue, selectedTime)

(***************************************************************************)
(* Initial state: main has built the window.  The SetSelected calls of     *)
(* CreateTimePicker deliver the initial "%02d" texts to the callbacks,     *)
(* which leaves every field as it was set from the start time.  The clock  *)
(* is taken not to advance between main's time.Now() and the one of the    *)
(* first updateCalendar.                                                   *)
(***************************************************************************)
Init ==
    \E t0 \in Instants :
        /\ now = t0
        /\ currentTime = t0
        /\ selectedDateValue = FormatDate(t0)
        /\ selectedDateTimeLabel =
               SprintfDateTime(t0.year, t0.month, t0.day, t0.hour, t0.minute, t0.second)
        /\ currentMonth = t0
        /\ monthYearLabel = FormatMonthYear(t0)
        /\ today = t0
        /\ calendarGrid = GridObjects(t0, t0)
        /\ pickerTime = t0
        /\ hours = t0.hour
        /\ minutes = t0.minute
        /\ seconds = t0.second
        /\ event = Event("init", 0, NoEventValue)

(***************************************************************************)
(* Actions.                                                                *)
(***************************************************************************)
\* The wall clock advances.
Tick ==
    /\ \E t \in Instants :
          /\ Later(t, now)
          /\ now' = t
    /\ UNCHANGED <<currentMonth, monthYearLabel, calendarGrid, today, currentTime,
                   selectedDateValue, selectedDateTimeLabel, pickerTime, hours,
                   minutes, seconds, event>>

\* prevBtn.OnTapped.
PrevTapped ==
    /\ 0 - MonthsAhead < MonthSpan
    /\ currentMonth' = AddDate(currentMonth, 0, -1, 0)
    /\ updateCalendar(currentMonth')
    /\ event' = Event("prev", 0, NoEventValue)
    /\ UNCHANGED <<now, currentTime, selectedDateValue, selectedDateTimeLabel,
                   pickerTime, hours, minutes, seconds>>

\* nextBtn.OnTapped.
NextTapped ==
    /\ MonthsAhead < MonthSpan
    /\ currentMonth' = AddDate(currentMonth, 0, 1, 0)
    /\ updateCalendar(currentMonth')
    /\ event' = Event("next", 0, NoEventValue)
    /\ UNCHANGED <<now, currentTime, selectedDateValue, selectedDateTimeLabel,
                   pickerTime, hours, minutes, seconds>>

\* dayBtn.OnTapped of the grid's i-th object.
DayTapped(i) ==
    /\ i \in DOMAIN calendarGrid
    /\ calendarGrid[i].kind = "button"
    /\ event' = Event("day", DigitsValue(calendarGrid[i].text), NoEventValue)
    /\ onDateSelected(calendarGrid[i].dayTime)
    /\ UNCHANGED <<now, currentMonth, monthYearLabel, calendarGrid, today,
                   pickerTime, hours, minutes, seconds>>

\* hourSelect's callback.
HourChanged(value) ==
    /\ event' = Event("hour", 0, value)
    /\ IF value # <<>>
       THEN /\ hours' = Sscanf(value)
            /\ updateTime(hours', minutes, seconds)
       ELSE UNCHANGED <<hours, currentTime, selectedDateTimeLabel>>
    /\ UNCHANGED <<now, currentMonth, monthYearLabel, calendarGrid, today,
                   selectedDateValue, pickerTime, minutes, seconds>>

\* minuteSelect's callback.
MinuteChanged(value) ==
    /\ event' = Event("minute", 0, value)
    /\ IF value # <<>>
       THEN /\ minutes' = Sscanf(value)
            /\ updateTime(hours, minutes', seconds)
       ELSE UNCHANGED <<minutes, currentTime, selectedDateTimeLabel>>
    /\ UNCHANGED <<now, currentMonth, monthYearLabel, calendarGrid, today,
                   selectedDateValue, pickerTime, hours, seconds>>

\* secondSelect's callback.
SecondChanged(value) ==
    /\ event' = Event("second", 0, value)
    /\ IF value # <<>>
       THEN /\ seconds' = Sscanf(value)
            /\ updateTime(hours, minutes, seconds')
       ELSE UNCHANGED <<seconds, currentTime, selectedDateTimeLabel>>
    /\ UNCHANGED <<now, currentMonth, monthYearLabel, calendarGrid, today,
                   selectedDateValue, pickerTime, hours, minutes>>

\* setCurrentButton's callback.
SetCurrentTapped ==
    /\ currentTime' = now
    /\ selectedDateValue' = FormatDate(now)
    /\ selectedDateTimeLabel' = PreviewText(FormatDate(now), now)
    /\ event' = Event("setcurrent", 0, NoEventValue)
    /\ UNCHANGED <<now, currentMonth, monthYearLabel, calendarGrid, today,
                   pickerTime, hours, minutes, seconds>>

\* A day button among the sampled days is tapped.
TapDay ==
    \E i \in 1..(7 + 6 + 31) :
        /\ i \in DOMAIN calendarGrid
        /\ calendarGrid[i].kind = "button"
        /\ DigitsValue(calendarGrid[i].text) \in TapDays
        /\ DayTapped(i)

ChooseHour ==
    \E v \in HourInputs : HourChanged(v)

ChooseMinute ==
    \E v \in MinuteInputs : MinuteChanged(v)

ChooseSecond ==
    \E v \in SecondInputs : SecondChanged(v)

Next ==
    \/ Tick
    \/ PrevTapped
    \/ NextTapped
    \/ TapDay
    \/ ChooseHour
    \/ ChooseMinute
    \/ ChooseSecond
    \/ SetCurrentTapped

Spec ==
    Init /\ [][Next]_vars

\* A select callback receives a text that is none of its options.
DeliverRawHour ==
    \E v \in RawInputs : HourChanged(v)

DeliverRawMinute ==
    \E v \in RawInputs : MinuteChanged(v)

DeliverRawSecond ==
    \E v \in RawInputs : SecondChanged(v)

NextRaw ==
    \/ Tick
    \/ TapDay
    \/ ChooseHour
    \/ ChooseMinute
    \/ ChooseSecond
    \/ SetCurrentTapped
    \/ DeliverRawHour
    \/ DeliverRawMinute
    \/ DeliverRawSecond

\* The window with the select callbacks open to any text; the month shown is
\* left where it starts, the callbacks and the preview never read it.
SpecRaw ==
    Init /\ [][NextRaw]_vars

(***************************************************************************)
(* What the window shows, read back from its texts, and the Gregorian      *)
(* calendar the claims refer to, stated independently of package time.     *)
(***************************************************************************)
ShownMonth ==
    CHOOSE m \in 1..12 : MonthNames[m] = monthYearLabel[1]

ShownYear ==
    DigitsValue(SubSeq(monthYearLabel, 3, Len(monthYearLabel)))

ShownIndex ==
    ShownYear * 12 + (ShownMonth - 1)

GregorianLeap(y) ==
    (y % 4 = 0) /\ ((y % 100 # 0) \/ (y % 400 = 0))

GregorianDaysInMonth(y, m) ==
    CASE m \in {1, 3, 5, 7, 8, 10, 12} -> 31
      [] m \in {4, 6, 9, 11} -> 30
      [] OTHER -> IF GregorianLeap(y) THEN 29 ELSE 28

\* Weekday of y-m-d, 0 = Sunday .. 6 = Saturday, by the congruence on the
\* civil date (no day count from an epoch).
GregorianWeekday(y, m, d) ==
    LET shift == <<0, 3, 2, 5, 0, 3, 5, 1, 4, 6, 2, 4>>
        yy    == IF m < 3 THEN y - 1 ELSE y
    IN  (yy + (yy \div 4) - (yy \div 100) + (yy \div 400) + shift[m] + d) % 7

\* Fields of a "YYYY-MM-DD" or "YYYY-MM-DD HH:MM:SS" text.
TextYear(text) ==
    DigitsValue(SubSeq(text, 1, 4))

TextMonth(text) ==
    DigitsValue(SubSeq(text, 6, 7))

TextDay(text) ==
    DigitsValue(SubSeq(text, 9, 10))

TextHour(text) ==
    DigitsValue(SubSeq(text, 12, 13))

TextMinute(text) ==
    DigitsValue(SubSeq(text, 15, 16))

TextSecond(text) ==
    DigitsValue(SubSeq(text, 18, 19))

\* text is ten characters, zero-padded decimal fields YYYY-MM-DD.
IsDateText(text) ==
    /\ Len(text) = 10
    /\ \A i \in {1, 2, 3, 4, 6, 7, 9, 10} : IsDigit(text[i])
    /\ text[5] = "-" /\ text[8] = "-"

\* text is nineteen characters, zero-padded decimal fields YYYY-MM-DD HH:MM:SS.
IsDateTimeText(text) ==
    /\ Len(text) = 19
    /\ IsDateText(SubSeq(text, 1, 10))
    /\ text[11] = " "
    /\ \A i \in {12, 13, 15, 16, 18, 19} : IsDigit(text[i])
    /\ text[14] = ":" /\ text[17] = ":"

DayButtons ==
    {i \in DOMAIN calendarGrid : calendarGrid[i].kind = "button"}

MarkedCells ==
    {i \in DOMAIN calendarGrid : calendarGrid[i].high}

\* Whether Sscanf "%d" reports an error on the text: it holds no number.
ScanFails(value) ==
    LET s    == SkipSpaces(value)
        body == IF s # <<>> /\ s[1] \in {"-", "+"} THEN Tail(s) ELSE s
    IN  DigitPrefix(body) = <<>>

(***************************************************************************)
(* The claims.                                                             *)
(***************************************************************************)

\* C1: every tap on the next-month button shows exactly the following
\* calendar month and every tap on the previous-month button exactly the
\* preceding one, whatever day-of-month the navigation state holds.
C1_NavStepsOneMonth ==
    [][/\ NextTapped => ShownIndex' = ShownIndex + 1
       /\ PrevTapped => ShownIndex' = ShownIndex - 1]_vars

\* C2: after any navigation, the grid holds after its 7 weekday headers
\* exactly weekday-of-the-1st blank cells and then the day cells
\* 1..daysInMonth in ascending order, daysInMonth by the Gregorian rule.
C2_GridLayout ==
    LET w == GregorianWeekday(ShownYear, ShownMonth, 1)
        n == GregorianDaysInMonth(ShownYear, ShownMonth)
    IN  /\ Len(calendarGrid) = 7 + w + n
        /\ \A i \in 1..7 :
              calendarGrid[i].kind = "label" /\ calendarGrid[i].text = <<WeekdayNames[i]>>
        /\ \A i \in 1..w :
              calendarGrid[7 + i].kind = "label" /\ calendarGrid[7 + i].text = <<>>
        /\ \A d \in 1..n :
              /\ calendarGrid[7 + w + d].kind = "button"
              /\ AllDigits(calendarGrid[7 + w + d].text)
              /\ calendarGrid[7 + w + d].text[1] # "0"
              /\ DigitsValue(calendarGrid[7 + w + d].text) = d

\* C2 witness: February 2000 reached by navigation, 2 blanks and 29 days.
C2_Witness ==
    /\ event.kind \in {"prev", "next"}
    /\ ShownMonth = 2 /\ ShownYear = 2000
    /\ Len(calendarGrid) = 7 + 2 + 29

\* C3: after each rebuild exactly one day cell is marked as today when
\* today's date lies in the displayed month, it is the cell of today's day,
\* and no cell is marked otherwise; blank cells are never marked.
C3_TodayMark ==
    /\ MarkedCells \subseteq DayButtons
    /\ IF today.year = ShownYear /\ today.month = ShownMonth
       THEN /\ Cardinality(MarkedCells) = 1
            /\ \A i \in MarkedCells : DigitsValue(calendarGrid[i].text) = today.day
       ELSE MarkedCells = {}

\* C3 witness: navigation has come back to today's month, one cell marked.
C3_Witness ==
    /\ event.kind = "prev"
    /\ today.year = ShownYear /\ today.month = ShownMonth
    /\ Cardinality(MarkedCells) = 1

\* C4: tapping day button n hands the callback the date (year, month, n) of
\* the month displayed at the tap; the selected-date label then shows that
\* date and the preview's date fields equal it.
C4_DayTapSelectsShownDate ==
    [][\A i \in DayButtons :
          DayTapped(i) =>
              LET n == DigitsValue(calendarGrid[i].text)
              IN  /\ calendarGrid[i].dayTime.year = ShownYear
                  /\ calendarGrid[i].dayTime.month = ShownMonth
                  /\ calendarGrid[i].dayTime.day = n
                  /\ IsDateText(selectedDateValue')
                  /\ TextYear(selectedDateValue') = ShownYear
                  /\ TextMonth(selectedDateValue') = ShownMonth
                  /\ TextDay(selectedDateValue') = n
                  /\ SubSeq(selectedDateTimeLabel', 1, 10) = selectedDateValue']_vars

\* C4 witness: day 31 tapped in a month navigation has moved to.
C4_Witness ==
    /\ event.kind = "day" /\ event.day = 31
    /\ ShownIndex # MonthIndex(pickerTime)
    /\ TextMonth(selectedDateValue) = ShownMonth
    /\ TextDay(selectedDateValue) = 31

\* C5: in every reachable state the preview is the zero-padded
\* YYYY-MM-DD HH:MM:SS text whose date is the selected-date label's and whose
\* time fields are currentTime's hour, minute and second.
C5_PreviewText ==
    /\ IsDateTimeText(selectedDateTimeLabel)
    /\ IsDateText(selectedDateValue)
    /\ SubSeq(selectedDateTimeLabel, 1, 10) = selectedDateValue
    /\ TextHour(selectedDateTimeLabel) = currentTime.hour
    /\ TextMinute(selectedDateTimeLabel) = currentTime.minute
    /\ TextSecond(selectedDateTimeLabel) = currentTime.second

\* C5 witness: a selector change after a day tap chose another date.
C5_Witness ==
    /\ event.kind = "hour"
    /\ TextDay(selectedDateValue) # pickerTime.day
    /\ TextHour(selectedDateTimeLabel) = 7

C8_YearBoundary ==
    [][/\ (NextTapped /\ ShownMonth = 12) =>
            ShownMonth' = 1 /\ ShownYear' = ShownYear + 1
       /\ (PrevTapped /\ ShownMonth = 1) =>
            ShownMonth' = 12 /\ ShownYear' = ShownYear - 1]_vars

\* C8 witness: next-month from December 2000 with day 31 held shows
\* January 2001.
C8_Witness ==
    /\ event.kind = "next"
    /\ currentMonth.day = 31
    /\ ShownMonth = 1 /\ ShownYear = 2001

\* C9: tapping a day button leaves the hour, minute and second shown in the
\* preview as they were before the tap.
C9_DayTapKeepsTime ==
    [][\A i \in DayButtons :
          DayTapped(i) =>
              SubSeq(selectedDateTimeLabel', 12, 19) = SubSeq(selectedDateTimeLabel, 12, 19)]_vars

\* C10: choosing a value in one time selector sets that field of the preview
\* to the value and leaves the preview's date and its other two time fields
\* as they were immediately before.
C10_SelectorChangesOneField ==
    [][/\ \A v \in HourInputs :
            HourChanged(v) =>
                /\ TextHour(selectedDateTimeLabel') = DigitsValue(v)
                /\ SubSeq(selectedDateTimeLabel', 1, 10) = SubSeq(selectedDateTimeLabel, 1, 10)
                /\ SubSeq(selectedDateTimeLabel', 15, 19) = SubSeq(selectedDateTimeLabel, 15, 19)
       /\ \A v \in MinuteInputs :
            MinuteChanged(v) =>
                /\ TextMinute(selectedDateTimeLabel') = DigitsValue(v)
                /\ SubSeq(selectedDateTimeLabel', 1, 13) = SubSeq(selectedDateTimeLabel, 1, 13)
                /\ SubSeq(selectedDateTimeLabel', 18, 19) = SubSeq(selectedDateTimeLabel, 18, 19)
       /\ \A v \in SecondInputs :
            SecondChanged(v) =>
                /\ TextSecond(selectedDateTimeLabel') = DigitsValue(v)
                /\ SubSeq(selectedDateTimeLabel', 1, 16) = SubSeq(selectedDateTimeLabel, 1, 16)]_vars

====
